---- MODULE Spec2Model ----
(***************************************************************************)
(* Deployment pipeline of src/deployment/pipeline.py: main() parses the    *)
(* invocation, constructs a DeploymentPipeline (loading the catalog) and   *)
(* runs deploy(), which drives the stages Test, Build, SecurityScan,       *)
(* ManifestUpdate, SyncTrigger, DeploymentWait / HealthVerify, rolls back  *)
(* on a verification failure and sends one notification.                   *)
(*                                                                         *)
(* Strings the code builds are sequences of tokens whose concatenation is  *)
(* the Python string; ":" is always a token of its own, so that            *)
(* str.split(':') is computed on the tokens.                               *)
(***************************************************************************)
EXTENDS Integers, Sequences, FiniteSets, TLC

VARIABLES
    pc,          \* position of the single thread of control in main()/deploy()
    args,        \* main(): the parsed arguments (service, env, dry_run)
    cli,         \* the invocation: the flags and the environment variables of the process
    self,        \* the DeploymentPipeline object: service_name, environment, dry_run
    catalog,     \* catalog-info.yaml: "unread" until _load_config looks, then "present"/"missing"
    manifest,    \* deploy/<env>/values.yaml: <<>> (absent) or << document >>
    docs,        \* the manifest file's contents: at the start, then after each update_manifest
    writes,      \* number of times the manifest file was written
    image_tag,   \* deploy()'s local image_tag (the value build_image returned)
    executed,    \* processes actually spawned, in order: [cmd, rc, via]
    reported,    \* "[DRY RUN] Would execute: <cmd>" lines, in order
    http,        \* network calls issued, in order: [kind, ...]
    trace,       \* stages started / rollback / notification / return, in order
    outcomes,    \* how each started stage ended: "ok", "false" or "raise"
    attempt,     \* _verify_health: loop variable (attempts made so far)
    sleeps,      \* _verify_health: the time.sleep() delays taken, in order
    healthy,     \* whether some health request so far was answered 200
    pending,     \* deploy()'s exit in progress: [success, message] to notify, value to return
    notified,    \* the send_notification invocations so far: [success, message]
    result,      \* <<>> until deploy() returns, then <<its return value>>
    exitStatus   \* <<>> until the process ends, then <<its exit status>>

vars == <<pc, args, cli, self, catalog, manifest, docs, writes, image_tag, executed, reported,
          http, trace, outcomes, attempt, sleeps, healthy, pending, notified,
          result, exitStatus>>

(***************************************************************************)
(* Inputs                                                                  *)
(***************************************************************************)
\* Largest exit status an external command returns in the model (0 = success).
MaxReturnCode == 1

RetCodes == 0..MaxReturnCode

None == "<None>"

ServiceFlags == {None, "", "user-api"}
ServiceVars == {None, "orders-api"}
EnvChoices == {"dev", "staging", "production"}
EnvFlags == {None, "production", "qa"}
EnvVars == {None, "dev", "qa"}

\* REGISTRY_URL: unset (default registry.company.com) or a host:port registry.
RegistryVars == { <<None>>, <<"localhost", ":", "5000">> }

\* The environment manifest before the run: <<>> when the file is absent, else
\* << the parsed document >>.  A document is a function from keys to values.
DocFull ==
    [ image |-> [repository |-> <<"company/user-api">>, tag |-> <<"old">>],
      replicas |-> <<"2">>,
      deployment |-> [ lastUpdated |-> <<"t0">>, updatedBy |-> <<"someone">>,
                       strategy |-> <<"rolling">> ] ]
DocNoDeployment ==
    [ image |-> [repository |-> <<"company/user-api">>, tag |-> <<"old">>],
      replicas |-> <<"2">> ]
DocNoImage == [ replicas |-> <<"2">> ]

Manifests == { <<>>, <<DocFull>>, <<DocNoDeployment>>, <<DocNoImage>> }

\* GITHUB_SHA: unset, or a short identifier; `git rev-parse HEAD` prints a long one.
GithubShaVars == { <<None>>, <<"b", "e", "e", "f">> }
RevParseOutputs == { <<"3", "f", "a", "9", "c", "0", "d", "e", "7", "1">> }

\* GITHUB_ACTOR and datetime.now().isoformat() at the manifest update.
ActorVars == { <<None>>, <<"octocat">> }
Times == { <<"t1">> }

\* ARGOCD_API_URL, SLACK_WEBHOOK_URL: unset, empty or set; ARGOCD_TOKEN.
UrlVars == { None, "", "https://endpoint" }
TokenVars == { None, "token" }

\* The plain invocation: `--service user-api` and nothing else set.
BaseInvocation ==
    [ service_flag |-> "user-api", env_flag |-> None, dry_run_flag |-> FALSE,
      SERVICE_NAME |-> None, DEPLOY_ENV |-> None,
      REGISTRY_URL |-> <<None>>, GITHUB_SHA |-> <<None>>, GITHUB_ACTOR |-> <<None>>,
      ARGOCD_API_URL |-> None, ARGOCD_TOKEN |-> None, SLACK_WEBHOOK_URL |-> None ]

\* The invocations: the flags and the environment variables of the process.  Each
\* group of settings is varied over all its values around the plain invocation,
\* with and without --dry-run.
Invocations ==
    UNION { LET b == [BaseInvocation EXCEPT !.dry_run_flag = d]
            IN  { [b EXCEPT !.service_flag = f, !.SERVICE_NAME = v] :
                      f \in ServiceFlags, v \in ServiceVars }
                \cup { [b EXCEPT !.env_flag = f, !.DEPLOY_ENV = v] :
                          f \in EnvFlags, v \in EnvVars }
                \cup { [b EXCEPT !.REGISTRY_URL = v] : v \in RegistryVars }
                \cup { [b EXCEPT !.GITHUB_SHA = v] : v \in GithubShaVars }
                \cup { [b EXCEPT !.GITHUB_ACTOR = v] : v \in ActorVars }
                \cup { [b EXCEPT !.ARGOCD_API_URL = u, !.ARGOCD_TOKEN = t] :
                          u \in UrlVars, t \in TokenVars }
                \cup { [b EXCEPT !.SLACK_WEBHOOK_URL = u] : u \in UrlVars }
            : d \in BOOLEAN }

\* Where a run starts: an invocation and the manifest file it finds.  The manifest
\* is varied around the plain invocation (with and without --dry-run); every
\* other invocation finds the full document.
Worlds ==
    { w \in [cli : Invocations, manifest : Manifests] :
        \/ w.manifest = <<DocFull>>
        \/ w.cli \in {[BaseInvocation EXCEPT !.dry_run_flag = d] : d \in BOOLEAN} }

\* What an HTTP call does: a response with a status code, or a raised exception.
Response(status) == [raised |-> FALSE, status |-> status]
Raised == [raised |-> TRUE, status |-> 0]
HttpOutcomes == { Response(200), Response(204), Response(503), Raised }

(***************************************************************************)
(* Strings                                                                 *)
(***************************************************************************)
\* os.getenv(name, default)
getenv(value, default) == IF value = <<None>> THEN default ELSE value

\* s[:n]
Prefix(s, n) == SubSeq(s, 1, IF Len(s) < n THEN Len(s) ELSE n)

\* ':' in s
HasColon(s) == \E i \in 1..Len(s) : s[i] = ":"

\* s.split(':'): the list of the parts between the ':' tokens
RECURSIVE split(_)
split(s) ==
    IF ~HasColon(s) THEN << s >>
    ELSE LET i == CHOOSE k \in 1..Len(s) :
                      s[k] = ":" /\ \A j \in 1..(k - 1) : s[j] # ":"
         IN  << SubSeq(s, 1, i - 1) >> \o split(SubSeq(s, i + 1, Len(s)))

\* not x, for an optional string
Falsy(x) == x = None \/ x = ""

(***************************************************************************)
(* _run_command  (pipeline.py 48-64)                                       *)
(***************************************************************************)
\* log = [executed, reported]; rc is the exit status the process would return.
\* Dry run: report the command, return (0, "dry-run-output"), spawn nothing.
\* Otherwise spawn it; with check=True a nonzero status raises
\* CalledProcessError, which is caught and turned into (returncode, stderr).
\* (mutant) a dry run does not report the command
run_command_quiet(dry_run, log, cmd, check, rc) ==
    IF dry_run
    THEN [ returncode |-> 0, output |-> "dry-run-output",
           executed |-> log.executed, reported |-> log.reported ]
    ELSE [ returncode |-> rc,
           output |-> IF check /\ rc # 0 THEN "stderr" ELSE "stdout",
           executed |-> Append(log.executed, [cmd |-> cmd, rc |-> rc, via |-> "run"]),
           reported |-> log.reported ]

run_command(dry_run, log, cmd, check, rc) ==
    IF dry_run
    THEN [ returncode |-> 0, output |-> "dry-run-output",
           executed |-> log.executed,
           reported |-> Append(log.reported, cmd) ]
    ELSE [ returncode |-> rc,
           output |-> IF check /\ rc # 0 THEN "stderr" ELSE "stdout",
           executed |-> Append(log.executed, [cmd |-> cmd, rc |-> rc, via |-> "run"]),
           reported |-> log.reported ]

LogOf(r) == [executed |-> r.executed, reported |-> r.reported]

(***************************************************************************)
(* run_tests  (pipeline.py 90-112)                                         *)
(***************************************************************************)
tests ==
    << [name |-> "Unit tests",
        cmd |-> <<"pytest tests/unit -v --cov=. --cov-report=xml">>],
       [name |-> "Integration tests",
        cmd |-> <<"pytest tests/integration -v">>],
       [name |-> "Linting",
        cmd |-> <<"flake8 . --count --select=E9,F63,F7,F82 --show-source --statistics">>],
       [name |-> "Type checking",
        cmd |-> <<"mypy . --ignore-missing-imports">>] >>

\* (mutant) every sub-step is run; the stage fails at the end if one failed
RECURSIVE run_tests_all(_, _, _, _)
run_tests_all(dry_run, log, rcs, i) ==
    IF i > Len(tests)
    THEN [ok |-> TRUE, failed |-> None, executed |-> log.executed, reported |-> log.reported]
    ELSE LET r == run_command(dry_run, log, tests[i].cmd, FALSE, rcs[i])
             rest == run_tests_all(dry_run, LogOf(r), rcs, i + 1)
         IN  IF r.returncode # 0
             THEN [ok |-> FALSE, failed |-> tests[i].name,
                   executed |-> rest.executed, reported |-> rest.reported]
             ELSE rest

\* The for loop from its i-th iteration; rcs[i] is the exit status of sub-step i.
RECURSIVE run_tests_from(_, _, _, _)
run_tests_from(dry_run, log, rcs, i) ==
    IF i > Len(tests)
    THEN [ok |-> TRUE, failed |-> None, executed |-> log.executed, reported |-> log.reported]
    ELSE LET r == run_command(dry_run, log, tests[i].cmd, FALSE, rcs[i])
         IN  IF r.returncode # 0
             THEN [ok |-> FALSE, failed |-> tests[i].name,
                   executed |-> r.executed, reported |-> r.reported]
             ELSE run_tests_from(dry_run, LogOf(r), rcs, i + 1)

run_tests(dry_run, log, rcs) == run_tests_from(dry_run, log, rcs, 1)

(***************************************************************************)
(* build_image  (pipeline.py 66-88)                                        *)
(***************************************************************************)
ShaLen == 8

DefaultRegistry == <<"registry.company.com">>

RevParseCmd == <<"git rev-parse HEAD">>

\* os.getenv("GITHUB_SHA", subprocess.getoutput("git rev-parse HEAD"))[:8]:
\* the default is evaluated before getenv is called, so the process is spawned
\* whether or not GITHUB_SHA is set, and in dry-run mode too.
git_sha(github_sha, rev_parse) == Prefix(getenv(github_sha, rev_parse), ShaLen)

local_tag(service_name, sha) == <<service_name, ":">> \o sha

full_tag(registry_url, tag) == getenv(registry_url, DefaultRegistry) \o <<"/">> \o tag

build_cmd(tag) == <<"docker build -t ">> \o tag \o <<" .">>
tag_cmd(tag, full) == <<"docker tag ">> \o tag \o <<" ">> \o full
push_cmd(full) == <<"docker push ">> \o full

\* rcs = exit statuses of docker build, docker tag, docker push.  Only the
\* build's status is looked at; tag and push results are discarded.
build_image(this, log, github_sha, rev_parse, registry_url, rcs) ==
    LET log0 == [ executed |-> Append(log.executed,
                                      [cmd |-> RevParseCmd, rc |-> 0, via |-> "getoutput"]),
                  reported |-> log.reported ]
        tag  == local_tag(this.service_name, git_sha(github_sha, rev_parse))
        full == full_tag(registry_url, tag)
        b    == run_command(this.dry_run, log0, build_cmd(tag), TRUE, rcs[1])
        t    == run_command(this.dry_run, LogOf(b), tag_cmd(tag, full), TRUE, rcs[2])
        p    == run_command(this.dry_run, LogOf(t), push_cmd(full), TRUE, rcs[3])
    IN  IF b.returncode # 0
        THEN [ raised |-> TRUE, error |-> <<"Docker build failed: ", b.output>>,
               value |-> <<>>, executed |-> b.executed, reported |-> b.reported ]
        ELSE [ raised |-> FALSE, error |-> <<>>,
               value |-> full, executed |-> p.executed, reported |-> p.reported ]

(***************************************************************************)
(* security_scan  (pipeline.py 114-132)                                    *)
(***************************************************************************)
scan_cmd(image) == <<"trivy image --severity HIGH,CRITICAL --exit-code 1 ">> \o image

\* (mutant) findings are bypassed in every environment
security_scan_lenient(this, log, image, rc) ==
    LET r == run_command(this.dry_run, log, scan_cmd(image), FALSE, rc)
    IN  [ ok |-> TRUE, bypass |-> r.returncode # 0,
          executed |-> r.executed, reported |-> r.reported ]

security_scan(this, log, image, rc) ==
    LET r == run_command(this.dry_run, log, scan_cmd(image), FALSE, rc)
    IN  [ ok |-> IF r.returncode # 0 THEN this.environment \in {"dev", "staging"} ELSE TRUE,
          bypass |-> r.returncode # 0 /\ this.environment \in {"dev", "staging"},
          executed |-> r.executed, reported |-> r.reported ]


(***************************************************************************)
(* update_manifest  (pipeline.py 134-170)                                  *)
(***************************************************************************)
\* d[k] = v on a dict
Put(d, k, v) == [x \in (DOMAIN d) \cup {k} |-> IF x = k THEN v ELSE d[x]]

EmptyDict == [x \in {} |-> <<>>]

manifest_path(environment) == <<"deploy/", environment, "/values.yaml">>

\* image_tag.split(':')[1] if ':' in image_tag else 'latest'
manifest_tag(image) == IF HasColon(image) THEN split(image)[2] ELSE <<"latest">>

\* (mutant) the deployment section is built from scratch instead of values.get(...)
updated_values_fresh(values, image, now, actor) ==
    LET v1 == Put(values, "image", Put(values["image"], "tag", manifest_tag(image)))
        d1 == Put(EmptyDict, "lastUpdated", now)
        d2 == Put(d1, "updatedBy", getenv(actor, <<"unknown">>))
    IN  Put(v1, "deployment", d2)

\* The document written back: image.tag and the deployment metadata are set.
updated_values(values, image, now, actor) ==
    LET v1  == Put(values, "image", Put(values["image"], "tag", manifest_tag(image)))
        dep == IF "deployment" \in DOMAIN v1 THEN v1["deployment"] ELSE EmptyDict
        d1  == Put(dep, "lastUpdated", now)
        d2  == Put(d1, "updatedBy", getenv(actor, <<"unknown">>))
    IN  Put(v1, "deployment", d2)

git_commands(this, tag) ==
    << <<"git add ">> \o manifest_path(this.environment),
       <<"git commit -m 'Deploy ", this.service_name, ":">> \o tag
            \o <<" to ", this.environment, "'">>,
       <<"git push origin main">> >>

\* rcs = exit statuses of git add, git commit, git push; none of them is looked at.
\* The file is opened for writing whatever dry_run is.
update_manifest(this, log, file, image, now, actor, rcs) ==
    IF file = <<>>
    THEN [ raised |-> TRUE,
           error |-> <<"Manifest not found: ">> \o manifest_path(this.environment),
           file |-> file, written |-> FALSE,
           executed |-> log.executed, reported |-> log.reported ]
    ELSE IF "image" \notin DOMAIN file[1]
    THEN [ raised |-> TRUE, error |-> <<"'image'">>,
           file |-> file, written |-> FALSE,
           executed |-> log.executed, reported |-> log.reported ]
    ELSE LET cmds == git_commands(this, manifest_tag(image))
             a == run_command(this.dry_run, log, cmds[1], TRUE, rcs[1])
             c == run_command(this.dry_run, LogOf(a), cmds[2], TRUE, rcs[2])
             p == run_command(this.dry_run, LogOf(c), cmds[3], TRUE, rcs[3])
         IN  [ raised |-> FALSE, error |-> <<>>,
               file |-> << updated_values(file[1], image, now, actor) >>,
               written |-> TRUE,
               executed |-> p.executed, reported |-> p.reported ]

(***************************************************************************)
(* trigger_argocd_sync  (pipeline.py 172-201)                              *)
(***************************************************************************)
app_name(this) == <<this.service_name, "-", this.environment>>

\* out is what requests.post does.  The request is issued in dry-run mode too,
\* with "dryRun": true in its body.
\* (mutant) any response counts as accepted; only an exception fails the stage
trigger_argocd_sync_any_response(this, calls, argocd_api, argocd_token, out) ==
    IF Falsy(argocd_api) \/ Falsy(argocd_token)
    THEN [ok |-> TRUE, http |-> calls]
    ELSE [ ok |-> ~out.raised,
           http |-> Append(calls, [ kind |-> "sync", method |-> "POST",
                                    app |-> app_name(this),
                                    dryRun |-> this.dry_run, outcome |-> out ]) ]

trigger_argocd_sync(this, calls, argocd_api, argocd_token, out) ==
    IF Falsy(argocd_api) \/ Falsy(argocd_token)
    THEN [ok |-> TRUE, http |-> calls]
    ELSE [ ok |-> ~out.raised /\ out.status = 200,
           http |-> Append(calls, [ kind |-> "sync", method |-> "POST",
                                    app |-> app_name(this),
                                    dryRun |-> this.dry_run, outcome |-> out ]) ]

(***************************************************************************)
(* wait_for_deployment  (pipeline.py 203-226)                              *)
(***************************************************************************)
DefaultTimeout == "600"

rollout_cmd(this, timeout) ==
    <<"kubectl rollout status deployment/", this.service_name, " -n ",
      this.environment, " --timeout=", timeout, "s">>

\* verify: whether the method goes on to return self._verify_health()
wait_for_deployment(this, log, rc) ==
    IF this.dry_run
    THEN [ ok |-> TRUE, verify |-> FALSE,
           executed |-> log.executed, reported |-> log.reported ]
    ELSE LET r == run_command(this.dry_run, log, rollout_cmd(this, DefaultTimeout), FALSE, rc)
         IN  [ ok |-> r.returncode = 0, verify |-> r.returncode = 0,
               executed |-> r.executed, reported |-> r.reported ]

(***************************************************************************)
(* _verify_health  (pipeline.py 228-256)                                   *)
(***************************************************************************)
max_retries == 5
RetryDelay == 10
HealthTimeout == 10

\* (mutant) a raised network error ends the polling
verify_health_attempt_abort(att, out) ==
    LET ok == ~out.raised /\ out.status = 200
    IN  [ done  |-> ok \/ out.raised \/ att + 1 >= max_retries,
          ok    |-> ok,
          sleep |-> IF ~ok /\ ~out.raised /\ att < max_retries - 1
                    THEN <<RetryDelay>> ELSE <<>> ]

\* One iteration of the for loop, entered with `attempt` (0-based) and outcome out
\* of requests.get: done/ok say whether and what the method returns after it.
verify_health_attempt(att, out) ==
    LET ok == ~out.raised /\ out.status = 200
    IN  [ done  |-> ok \/ att + 1 >= max_retries,
          ok    |-> ok,
          sleep |-> IF ~ok /\ att < max_retries - 1 THEN <<RetryDelay>> ELSE <<>> ]

(***************************************************************************)
(* rollback  (pipeline.py 258-270)                                         *)
(***************************************************************************)
undo_cmd(this) ==
    <<"kubectl rollout undo deployment/", this.service_name, " -n ", this.environment>>

rollback(this, log, rc) ==
    LET r == run_command(this.dry_run, log, undo_cmd(this), FALSE, rc)
    IN  [ok |-> r.returncode = 0, executed |-> r.executed, reported |-> r.reported]

(***************************************************************************)
(* send_notification  (pipeline.py 272-300)                                *)
(***************************************************************************)
\* out is what requests.post does.  Returns without posting when
\* SLACK_WEBHOOK_URL is unset or empty; an exception of requests.post is caught
\* and logged; the response's status is not looked at.  raised: whether an
\* exception leaves the method.
\* (mutant) requests.post is called outside the try block
send_notification_unguarded(this, calls, webhook_url, success, message, out) ==
    IF Falsy(webhook_url)
    THEN [http |-> calls, raised |-> FALSE]
    ELSE [ http |-> Append(calls, [ kind |-> "notify", method |-> "POST",
                                    success |-> success, message |-> message,
                                    outcome |-> out ]),
           raised |-> out.raised ]

send_notification(this, calls, webhook_url, success, message, out) ==
    IF Falsy(webhook_url)
    THEN [http |-> calls, raised |-> FALSE]
    ELSE [ http |-> Append(calls, [ kind |-> "notify", method |-> "POST",
                                    success |-> success, message |-> message,
                                    outcome |-> out ]),
           raised |-> FALSE ]

(***************************************************************************)
(* deploy  (pipeline.py 302-349)                                           *)
(***************************************************************************)
\* handler: the exit is the one of the except branch
NoPending == [success |-> FALSE, message |-> <<>>, returns |-> FALSE, handler |-> FALSE]

Goto(p) == [pc |-> p, pending |-> NoPending]

\* self.send_notification(success, message); return returns
Finish(success, message, returns) ==
    [pc |-> "notify", pending |-> [success |-> success, message |-> message,
                                   returns |-> returns, handler |-> FALSE]]

\* (mutant) the except branch returns False without notifying
on_exception_silent(error) == Goto("return")

\* except Exception as e: send_notification(False, f"Deployment error: {e}"); return False
on_exception(error) ==
    [ Finish(FALSE, <<"Deployment error: ">> \o error, FALSE)
        EXCEPT !.pending.handler = TRUE ]

\* if not self.run_tests(): ...
after_tests(ok) ==
    IF ok THEN Goto("build") ELSE Finish(FALSE, <<"Tests failed">>, FALSE)

\* image_tag = self.build_image()
after_build == Goto("scan")

\* (mutant) a failed scan does not stop the run
after_scan_continues(ok) == Goto("manifest")

\* if not self.security_scan(image_tag): ...
after_scan(ok) ==
    IF ok THEN Goto("manifest") ELSE Finish(FALSE, <<"Security scan failed">>, FALSE)

\* self.update_manifest(image_tag)
after_manifest == Goto("sync")

\* (mutant) a failed sync trigger undoes the rollout
after_sync_rolls_back(ok) ==
    IF ok THEN Goto("wait") ELSE Goto("rollback")

\* if not self.trigger_argocd_sync(): ...
after_sync(ok) ==
    IF ok THEN Goto("wait") ELSE Finish(FALSE, <<"Failed to trigger ArgoCD sync">>, FALSE)

\* (mutant) a verification failure is reported without rolling back
after_wait_no_rollback(ok, image) ==
    IF ok
    THEN Finish(TRUE, <<"Deployed ">> \o image \o <<" in ", "<duration>", "s">>, TRUE)
    ELSE Finish(FALSE, <<"Deployment failed, rolled back">>, FALSE)

\* if not self.wait_for_deployment(): self.rollback() ... else the success exit
after_wait(ok, image) ==
    IF ok
    THEN Finish(TRUE, <<"Deployed ">> \o image \o <<" in ", "<duration>", "s">>, TRUE)
    ELSE Goto("rollback")

\* (mutant) after a rollback the verification is attempted again
after_rollback_retries(ok) == Goto("wait")

\* (mutant) a failed rollback changes the reported cause
after_rollback_reports(ok) ==
    IF ok THEN Finish(FALSE, <<"Deployment failed, rolled back">>, FALSE)
    ELSE Finish(FALSE, <<"Rollback failed">>, FALSE)

\* self.rollback(); self.send_notification(False, ...); return False
after_rollback(ok) == Finish(FALSE, <<"Deployment failed, rolled back">>, FALSE)

\* Where deploy() goes after a stage ended with outcome "ok", "false" or "raise";
\* info is the exception's text after "raise" and the image reference otherwise.
deploy_next(stage, outcome, info) ==
    IF outcome = "raise"
    THEN on_exception(info)
    ELSE CASE stage = "Test" -> after_tests(outcome = "ok")
           [] stage = "Build" -> after_build
           [] stage = "SecurityScan" -> after_scan(outcome = "ok")
           [] stage = "ManifestUpdate" -> after_manifest
           [] stage = "SyncTrigger" -> after_sync(outcome = "ok")
           [] stage = "DeploymentWait" -> after_wait(outcome = "ok", info)
           [] stage = "Rollback" -> after_rollback(outcome = "ok")

Outcome(ok) == IF ok THEN "ok" ELSE "false"

(***************************************************************************)
(* main  (pipeline.py 352-382)                                             *)
(***************************************************************************)
\* argparse: a flag that is given wins over the default taken from the environment
\* variable; --env is checked against its choices only when it is given (a default
\* is not checked); an invalid --env ends the process with status 2.
parse_args(c) ==
    [ error   |-> c.env_flag # None /\ c.env_flag \notin EnvChoices,
      service |-> IF c.service_flag # None THEN c.service_flag ELSE c.SERVICE_NAME,
      env     |-> IF c.env_flag # None THEN c.env_flag
                  ELSE IF c.DEPLOY_ENV # None THEN c.DEPLOY_ENV ELSE "staging",
      dry_run |-> c.dry_run_flag ]

NoArgs == [error |-> FALSE, service |-> None, env |-> None, dry_run |-> FALSE]
NoPipeline == [service_name |-> None, environment |-> None, dry_run |-> FALSE]

\* (mutant) the process always ends with status 0
exit_code_zero(success) == 0

\* sys.exit(0 if success else 1)
exit_code(success) == IF success THEN 0 ELSE 1

\* argparse's status for a usage error, sys.exit(1) for the missing service, and the
\* interpreter's status for the exception __init__ lets through.
UsageError == 2
Fatal == 1
Uncaught == 1

\* (mutant) a missing catalog is not an error
load_config_lenient(exists) == [raised |-> FALSE, error |-> <<>>]

\* _load_config (pipeline.py 39-46): FileNotFoundError when the catalog is absent
load_config(exists) ==
    [ raised |-> ~exists,
      error |-> IF exists THEN <<>> ELSE <<"catalog-info.yaml not found">> ]

(***************************************************************************)
(* The state machine                                                       *)
(***************************************************************************)
Init ==
    /\ pc = "main"
    /\ args = NoArgs
    /\ self = NoPipeline
    /\ catalog = "unread"
    /\ \E w \in Worlds : cli = w.cli /\ manifest = w.manifest
    /\ docs = <<manifest>>
    /\ writes = 0
    /\ image_tag = <<>>
    /\ executed = <<>>
    /\ reported = <<>>
    /\ http = <<>>
    /\ trace = <<>>
    /\ outcomes = <<>>
    /\ attempt = 0
    /\ sleeps = <<>>
    /\ healthy = FALSE
    /\ pending = NoPending
    /\ notified = <<>>
    /\ result = <<>>
    /\ exitStatus = <<>>

Log == [executed |-> executed, reported |-> reported]

\* main() up to the construction of the pipeline: parse the invocation.
Main ==
    /\ pc = "main"
    /\ LET a == parse_args(cli)
       IN  IF a.error
           THEN /\ args' = args
                /\ exitStatus' = <<UsageError>>
                /\ pc' = "exited"
           ELSE /\ args' = a
                /\ IF Falsy(a.service)
                   THEN exitStatus' = <<Fatal>> /\ pc' = "exited"
                   ELSE exitStatus' = exitStatus /\ pc' = "construct"
    /\ UNCHANGED <<cli, self, catalog, manifest, docs, writes, image_tag, executed, reported,
                   http, trace, outcomes, attempt, sleeps, healthy, pending, notified,
                   result>>

\* DeploymentPipeline(args.service, args.env, args.dry_run): __init__ and
\* _load_config.  FileNotFoundError is not caught by main(): the interpreter
\* prints the traceback and ends with status 1.
Construct ==
    /\ pc = "construct"
    /\ \E exists \in BOOLEAN :
          /\ catalog' = IF exists THEN "present" ELSE "missing"
          /\ IF load_config(exists).raised
             THEN /\ self' = self
                  /\ pc' = "exited"
                  /\ exitStatus' = <<Uncaught>>
             ELSE /\ self' = [ service_name |-> args.service, environment |-> args.env,
                               dry_run |-> args.dry_run ]
                  /\ pc' = "tests"
                  /\ exitStatus' = exitStatus
    /\ UNCHANGED <<args, cli, manifest, docs, writes, image_tag, executed, reported, http,
                   trace, outcomes, attempt, sleeps, healthy, pending, notified, result>>

\* A stage that ran to its end: log it and move on as deploy() does.
StageEnds(stage, outcome, info) ==
    LET n == deploy_next(stage, outcome, info)
    IN  /\ trace' = Append(trace, stage)
        /\ outcomes' = Append(outcomes, outcome)
        /\ pc' = n.pc
        /\ pending' = n.pending

RunTests ==
    /\ pc = "tests"
    /\ \E rcs \in [1..Len(tests) -> RetCodes] :
          LET r == run_tests(self.dry_run, Log, rcs)
          IN  /\ executed' = r.executed
              /\ reported' = r.reported
              /\ StageEnds("Test", Outcome(r.ok), image_tag)
    /\ UNCHANGED <<args, cli, self, catalog, manifest, docs, writes, image_tag, http, attempt,
                   sleeps, healthy, notified, result, exitStatus>>

BuildImage ==
    /\ pc = "build"
    /\ \E head \in RevParseOutputs, rcs \in [1..3 -> RetCodes] :
          LET r == build_image(self, Log, cli.GITHUB_SHA, head, cli.REGISTRY_URL, rcs)
          IN  /\ executed' = r.executed
              /\ reported' = r.reported
              /\ image_tag' = r.value
              /\ StageEnds("Build", IF r.raised THEN "raise" ELSE "ok",
                           IF r.raised THEN r.error ELSE r.value)
    /\ UNCHANGED <<args, cli, self, catalog, manifest, docs, writes, http, attempt, sleeps,
                   healthy, notified, result, exitStatus>>

SecurityScan ==
    /\ pc = "scan"
    /\ \E rc \in RetCodes :
          LET r == security_scan(self, Log, image_tag, rc)
          IN  /\ executed' = r.executed
              /\ reported' = r.reported
              /\ StageEnds("SecurityScan", Outcome(r.ok), image_tag)
    /\ UNCHANGED <<args, cli, self, catalog, manifest, docs, writes, image_tag, http, attempt,
                   sleeps, healthy, notified, result, exitStatus>>

UpdateManifest ==
    /\ pc = "manifest"
    /\ \E now \in Times, rcs \in [1..3 -> RetCodes] :
          LET r == update_manifest(self, Log, manifest, image_tag, now,
                                   cli.GITHUB_ACTOR, rcs)
          IN  /\ executed' = r.executed
              /\ reported' = r.reported
              /\ manifest' = r.file
              /\ docs' = Append(docs, r.file)
              /\ writes' = IF r.written THEN writes + 1 ELSE writes
              /\ StageEnds("ManifestUpdate", IF r.raised THEN "raise" ELSE "ok",
                           IF r.raised THEN r.error ELSE image_tag)
    /\ UNCHANGED <<args, cli, self, catalog, image_tag, http, attempt, sleeps, healthy,
                   notified, result, exitStatus>>

TriggerArgocdSync ==
    /\ pc = "sync"
    /\ \E out \in HttpOutcomes :
          LET r == trigger_argocd_sync(self, http, cli.ARGOCD_API_URL,
                                       cli.ARGOCD_TOKEN, out)
          IN  /\ http' = r.http
              /\ StageEnds("SyncTrigger", Outcome(r.ok), image_tag)
    /\ UNCHANGED <<args, cli, self, catalog, manifest, docs, writes, image_tag, executed,
                   reported, attempt, sleeps, healthy, notified, result, exitStatus>>

\* wait_for_deployment up to its return or its call of _verify_health.
WaitForDeployment ==
    /\ pc = "wait"
    /\ \E rc \in RetCodes :
          LET r == wait_for_deployment(self, Log, rc)
          IN  /\ executed' = r.executed
              /\ reported' = r.reported
              /\ IF r.verify
                 THEN /\ trace' = Append(trace, "DeploymentWait")
                      /\ pc' = "health"
                      /\ UNCHANGED <<outcomes, pending>>
                 ELSE StageEnds("DeploymentWait", Outcome(r.ok), image_tag)
    /\ UNCHANGED <<args, cli, self, catalog, manifest, docs, writes, image_tag, http, attempt,
                   sleeps, healthy, notified, result, exitStatus>>

\* _verify_health: its dry-run return, or one iteration of its loop;
\* wait_for_deployment returns what it returns.
VerifyHealth ==
    /\ pc = "health"
    /\ IF self.dry_run
       THEN /\ outcomes' = Append(outcomes, "ok")
            /\ pc' = after_wait(TRUE, image_tag).pc
            /\ pending' = after_wait(TRUE, image_tag).pending
            /\ UNCHANGED <<http, attempt, sleeps, healthy>>
       ELSE \E out \in HttpOutcomes :
              LET r == verify_health_attempt(attempt, out)
                  n == deploy_next("DeploymentWait", Outcome(r.ok), image_tag)
              IN  /\ http' = Append(http, [ kind |-> "health", method |-> "GET",
                                            timeout |-> HealthTimeout ])
                  /\ attempt' = attempt + 1
                  /\ sleeps' = sleeps \o r.sleep
                  /\ healthy' = (healthy \/ out = Response(200))
                  /\ IF r.done
                     THEN /\ outcomes' = Append(outcomes, Outcome(r.ok))
                          /\ pc' = n.pc
                          /\ pending' = n.pending
                     ELSE UNCHANGED <<outcomes, pc, pending>>
    /\ UNCHANGED <<args, cli, self, catalog, manifest, docs, writes, image_tag, executed,
                   reported, trace, notified, result, exitStatus>>

Rollback ==
    /\ pc = "rollback"
    /\ \E rc \in RetCodes :
          LET r == rollback(self, Log, rc)
          IN  /\ executed' = r.executed
              /\ reported' = r.reported
              /\ StageEnds("Rollback", Outcome(r.ok), image_tag)
    /\ UNCHANGED <<args, cli, self, catalog, manifest, docs, writes, image_tag, http, attempt,
                   sleeps, healthy, notified, result, exitStatus>>

\* send_notification as deploy() calls it on its way out.  Were it to raise, the
\* exception would reach deploy()'s except branch (a second notification), and
\* from inside that branch it would leave deploy() and end main().
SendNotification ==
    /\ pc = "notify"
    /\ \E out \in HttpOutcomes :
          LET r == send_notification(self, http, cli.SLACK_WEBHOOK_URL,
                                     pending.success, pending.message, out)
          IN  /\ http' = r.http
              /\ IF ~r.raised
                 THEN /\ pc' = "return"
                      /\ UNCHANGED <<pending, exitStatus>>
                 ELSE IF ~pending.handler
                 THEN /\ pc' = on_exception(<<"notification">>).pc
                      /\ pending' = on_exception(<<"notification">>).pending
                      /\ UNCHANGED exitStatus
                 ELSE /\ pc' = "exited"
                      /\ exitStatus' = <<Uncaught>>
                      /\ UNCHANGED pending
    /\ notified' = Append(notified, [success |-> pending.success,
                                     message |-> pending.message])
    /\ trace' = Append(trace, "Notify")
    /\ UNCHANGED <<args, cli, self, catalog, manifest, docs, writes, image_tag, executed,
                   reported, outcomes, attempt, sleeps, healthy, result>>

\* deploy() returns to main(), which ends the process:
\* success = pipeline.deploy(); sys.exit(0 if success else 1)
Return ==
    /\ pc = "return"
    /\ result' = <<pending.returns>>
    /\ exitStatus' = <<exit_code(pending.returns)>>
    /\ trace' = Append(trace, "Return")
    /\ pc' = "exited"
    /\ UNCHANGED <<args, cli, self, catalog, manifest, docs, writes, image_tag, executed,
                   reported, http, outcomes, attempt, sleeps, healthy, pending, notified>>

Next ==
    \/ Main
    \/ Construct
    \/ RunTests
    \/ BuildImage
    \/ SecurityScan
    \/ UpdateManifest
    \/ TriggerArgocdSync
    \/ WaitForDeployment
    \/ VerifyHealth
    \/ Rollback
    \/ SendNotification
    \/ Return

Spec == Init /\ [][Next]_vars

\* The single thread of control keeps running: every external command and HTTP
\* call returns, so whichever step is enabled is eventually taken.
LiveSpec == Spec /\ WF_vars(Next)

(***************************************************************************)
(* update_manifest applied repeatedly to one manifest file                 *)
(***************************************************************************)
\* Number of times update_manifest is applied to the file.
MaxApplications == 2

\* The image references handed to update_manifest: what build_image returns for
\* the registries and commit identifiers above, and a reference without a tag.
ImageReferences ==
    { full_tag(reg, local_tag("user-api", git_sha(sha, head))) :
          reg \in RegistryVars, sha \in GithubShaVars, head \in RevParseOutputs }
    \cup { <<"registry.company.com", "/", "user-api">> }

\* datetime.now().isoformat() at successive applications
UpdateTimes == { <<"t1">>, <<"t2">> }

\* A constructed pipeline about to call update_manifest(image_tag).
InitManifest ==
    /\ pc = "update_manifest"
    /\ args = NoArgs
    /\ cli = BaseInvocation
    /\ \E d \in BOOLEAN :
          self = [service_name |-> "user-api", environment |-> "staging", dry_run |-> d]
    /\ catalog = "present"
    /\ manifest \in Manifests
    /\ docs = <<manifest>>
    /\ writes = 0
    /\ image_tag \in ImageReferences
    /\ executed = <<>>
    /\ reported = <<>>
    /\ http = <<>>
    /\ trace = <<>>
    /\ outcomes = <<>>
    /\ attempt = 0
    /\ sleeps = <<>>
    /\ healthy = FALSE
    /\ pending = NoPending
    /\ notified = <<>>
    /\ result = <<>>
    /\ exitStatus = <<>>

\* One more call of update_manifest with the same image reference; the three git
\* commands all exit with rc.
ApplyUpdateManifest ==
    /\ pc = "update_manifest"
    /\ Len(docs) <= MaxApplications
    /\ \E now \in UpdateTimes, actor \in ActorVars, rc \in RetCodes :
          LET r == update_manifest(self, Log, manifest, image_tag, now, actor,
                                   [i \in 1..3 |-> rc])
          IN  /\ executed' = r.executed
              /\ reported' = r.reported
              /\ manifest' = r.file
              /\ docs' = Append(docs, r.file)
              /\ writes' = IF r.written THEN writes + 1 ELSE writes
    /\ UNCHANGED <<pc, args, cli, self, catalog, image_tag, http, trace, outcomes,
                   attempt, sleeps, healthy, pending, notified, result, exitStatus>>

NextManifest == ApplyUpdateManifest

ManifestSpec == InitManifest /\ [][NextManifest]_vars


(***************************************************************************)
(* Properties                                                              *)
(***************************************************************************)
StageOrder ==
    <<"Test", "Build", "SecurityScan", "ManifestUpdate", "SyncTrigger", "DeploymentWait">>

IsStage(e) == \E i \in 1..Len(StageOrder) : StageOrder[i] = e

\* the stages started so far, in the order they started
Started == SelectSeq(trace, IsStage)

Count(seq, e) == Cardinality({i \in 1..Len(seq) : seq[i] = e})

Index(seq, e) == CHOOSE i \in 1..Len(seq) : seq[i] = e

IsPrefix(a, b) == Len(a) <= Len(b) /\ SubSeq(b, 1, Len(a)) = a

\* C1: stages start in the order Test, Build, SecurityScan, ManifestUpdate,
\* SyncTrigger, DeploymentWait; a stage is started only if every earlier stage of the
\* run ended in success, so after a stage returned False or raised no later stage
\* is started.
C1_StagesInOrder ==
    /\ IsPrefix(Started, StageOrder)
    /\ \A i \in 1..Len(Started) :
          \A j \in 1..(i - 1) : j <= Len(outcomes) /\ outcomes[j] = "ok"
    /\ \A j \in 1..Len(outcomes) :
          (j <= Len(StageOrder) /\ outcomes[j] # "ok") => Len(Started) = j

\* a run in which the scan failed after Test and Build succeeded, and that ended there
C1_Witness ==
    /\ pc = "exited"
    /\ Started = <<"Test", "Build", "SecurityScan">>
    /\ outcomes = <<"ok", "ok", "false">>


\* the verification phase (wait_for_deployment) returned False
VerificationFailed == Len(outcomes) >= 6 /\ outcomes[6] = "false"

UndoRuns == {i \in 1..Len(executed) : executed[i].cmd = undo_cmd(self)}

\* C2: when the verification phase fails (rollout status nonzero, or the health
\* check exhausted), rollback() is invoked exactly once, before the failure
\* notification and before deploy() returns False, whatever rollback() returns.
C2_RollbackOnVerifyFailure ==
    /\ Count(trace, "Rollback") <= 1
    /\ (VerificationFailed /\ pc \in {"notify", "return", "exited"}) =>
          /\ Count(trace, "Rollback") = 1
          /\ Cardinality(UndoRuns) = 1
          /\ Len(outcomes) = 7
    /\ (VerificationFailed /\ Count(trace, "Notify") > 0) =>
          Index(trace, "Rollback") < Index(trace, "Notify")
    /\ (VerificationFailed /\ result # <<>>) =>
          /\ result = <<FALSE>>
          /\ Index(trace, "Rollback") < Index(trace, "Return")
          /\ notified = << [ success |-> FALSE,
                             message |-> <<"Deployment failed, rolled back">> ] >>

\* the health check was exhausted, the rollback itself failed, and the run ended
C2_Witness ==
    /\ pc = "exited"
    /\ VerificationFailed
    /\ attempt = 5
    /\ outcomes[7] = "false"

\* C3: every execution of deploy() invokes send_notification exactly once, as its
\* last action before returning, with success = the value deploy() returns.
C3_NotifiedOnce ==
    /\ Len(notified) <= 1
    /\ Count(trace, "Notify") = Len(notified)
    /\ (pc = "exited" /\ trace # <<>>) => result # <<>>
    /\ result # <<>> =>
          /\ Len(notified) = 1
          /\ notified[1].success = result[1]
          /\ Len(trace) >= 2
          /\ trace[Len(trace)] = "Return"
          /\ trace[Len(trace) - 1] = "Notify"

\* a run in which a stage raised, ended
C3_Witness ==
    /\ pc = "exited"
    /\ \E i \in 1..Len(outcomes) : outcomes[i] = "raise"
    /\ Len(notified) = 1
    /\ ~notified[1].success

AllStagesOk ==
    /\ Len(outcomes) = Len(StageOrder)
    /\ \A i \in 1..Len(outcomes) : outcomes[i] = "ok"

\* C4: the exit status is 0 exactly when deploy() returned True, which is exactly
\* when every stage ended in success; a stage failure, an exception in a stage, a
\* missing service identifier and a missing catalog all end in a nonzero status.
C4_ExitStatus ==
    /\ pc # "exited" => exitStatus = <<>>
    /\ pc = "exited" =>
          /\ Len(exitStatus) = 1
          /\ (exitStatus[1] = 0) <=> (result = <<TRUE>>)
          /\ (exitStatus[1] = 0) <=> AllStagesOk
          /\ (\E i \in 1..Len(outcomes) : outcomes[i] # "ok") => exitStatus[1] # 0
          /\ catalog = "missing" => exitStatus[1] # 0
          /\ Falsy(parse_args(cli).service) => exitStatus[1] # 0

\* a real run that went through every stage and ended with status 0
C4_Witness ==
    /\ pc = "exited"
    /\ exitStatus = <<0>>
    /\ ~self.dry_run
    /\ attempt >= 1

HealthGets == {i \in 1..Len(http) : http[i].kind = "health"}

\* _verify_health has returned
HealthReturned == attempt >= 1 /\ pc # "health"

\* C5: in real mode _verify_health returns True exactly when one of at most 5
\* attempts gets a 200, and polls no further after the first 200; when every
\* attempt is unhealthy (non-200 or a raised error) it returns False after exactly
\* 5 attempts and exactly 4 delays of 10, none after the last attempt.
C5_HealthRetries ==
    /\ attempt <= 5
    /\ Cardinality(HealthGets) = attempt
    /\ \A i \in 1..Len(sleeps) : sleeps[i] = 10
    /\ healthy => (pc # "health" /\ Len(sleeps) = attempt - 1)
    /\ HealthReturned =>
          /\ Len(outcomes) >= 6
          /\ (outcomes[6] = "ok") <=> healthy
          /\ ~healthy => (attempt = 5 /\ sleeps = <<10, 10, 10, 10>>)

\* every attempt was unhealthy and the method has returned
C5_Witness ==
    /\ HealthReturned
    /\ ~healthy
    /\ attempt = 5
    /\ outcomes[6] = "false"

ScanRuns == {i \in 1..Len(executed) : executed[i].cmd = scan_cmd(image_tag)}

\* C6: a scan that exits nonzero fails the stage in production and passes it in
\* staging and dev; a scan that exits zero passes in every environment; a
\* production run with a finding never starts ManifestUpdate.
C6_ScanPolicy ==
    \A i \in ScanRuns :
        /\ Len(outcomes) >= 3
        /\ executed[i].rc = 0 => outcomes[3] = "ok"
        /\ (executed[i].rc # 0 /\ self.environment = "production") =>
              /\ outcomes[3] = "false"
              /\ Count(trace, "ManifestUpdate") = 0
              /\ writes = 0
        /\ (executed[i].rc # 0 /\ self.environment \in {"staging", "dev"}) =>
              outcomes[3] = "ok"

\* a production run whose scan reported a finding, ended
C6_Witness ==
    /\ pc = "exited"
    /\ self.environment = "production"
    /\ \E i \in ScanRuns : executed[i].rc # 0


IsRun(e) == e.via = "run"

\* the entries of `executed` that went through _run_command
Runs == SelectSeq(executed, IsRun)

CmdsOf(seq) == [i \in 1..Len(seq) |-> seq[i].cmd]

Posts == {i \in 1..Len(http) : http[i].method = "POST"}

\* C7: in a dry run no side-effecting operation is performed: no command is
\* spawned through _run_command, the manifest file is not written, and no POST
\* (sync request, notification) is issued.  (The read-only `git rev-parse HEAD`
\* that build_image spawns directly is left out of the statement.)
C7_DryRunNoSideEffects ==
    self.dry_run => (Len(Runs) = 0 /\ writes = 0 /\ Posts = {})

\* the part of the image reference after the registry
LocalOf(image) == SubSeq(image, Index(image, "/") + 1, Len(image))

\* the commands deploy() hands to _run_command when every one of them succeeds
PipelineCommands ==
    [i \in 1..Len(tests) |-> tests[i].cmd]
    \o << build_cmd(LocalOf(image_tag)),
          tag_cmd(LocalOf(image_tag), image_tag),
          push_cmd(image_tag),
          scan_cmd(image_tag) >>
    \o git_commands(self, manifest_tag(image_tag))
    \o << rollout_cmd(self, DefaultTimeout) >>

RealAllSucceeded ==
    /\ ~self.dry_run
    /\ result = <<TRUE>>
    /\ \A i \in 1..Len(Runs) : Runs[i].rc = 0

DryRunSucceeded == self.dry_run /\ result = <<TRUE>>

\* C8 as stated: the commands a dry run reports are exactly the commands a real
\* run in which every command succeeds executes (tests, build/tag/push, scan,
\* git add/commit/push, rollout status), verbatim.
C8_DryRunReportsAll ==
    /\ RealAllSucceeded => CmdsOf(Runs) = PipelineCommands
    /\ DryRunSucceeded => reported = PipelineCommands

\* C8 amended: a dry run that runs to the end reports, in order and verbatim, the
\* commands a successful real run hands to _run_command up to and including git
\* push; the rollout status command, the last one of the real run, is not
\* reported.  At every point of a dry run the report is a proper prefix of the
\* real run's sequence.
C8_DryRunReportsAllButRollout ==
    /\ RealAllSucceeded => CmdsOf(Runs) = PipelineCommands
    /\ DryRunSucceeded =>
          reported \o << rollout_cmd(self, DefaultTimeout) >> = PipelineCommands
    /\ (self.dry_run /\ image_tag # <<>>) =>
          (IsPrefix(reported, PipelineCommands) /\ Len(reported) < Len(PipelineCommands))

\* a dry run that went through every stage
C8_Witness ==
    /\ DryRunSucceeded
    /\ pc = "exited"
    /\ Len(reported) = 11

GitFailed ==
    \E i \in 1..Len(Runs) :
        /\ Runs[i].rc # 0
        /\ \/ Runs[i].cmd = git_commands(self, manifest_tag(image_tag))[2]
           \/ Runs[i].cmd = git_commands(self, manifest_tag(image_tag))[3]

\* C9: when git commit or git push exits nonzero the manifest file stays rewritten
\* but ManifestUpdate counts as failed: SyncTrigger and DeploymentWait are not
\* started and deploy() returns False.
C9_GitFailureFailsStage ==
    GitFailed =>
        /\ writes = 1
        /\ Count(trace, "SyncTrigger") = 0
        /\ Count(trace, "DeploymentWait") = 0
        /\ result # <<>> => result = <<FALSE>>

\* C10: with the catalog file missing the run ends during construction: no stage
\* is started, no command is run or reported, no request or notification is made,
\* rollback is not invoked, and the exit status is nonzero.
C10_MissingCatalogAborts ==
    catalog = "missing" =>
        /\ pc = "exited"
        /\ trace = <<>>
        /\ outcomes = <<>>
        /\ executed = <<>>
        /\ reported = <<>>
        /\ http = <<>>
        /\ notified = <<>>
        /\ result = <<>>
        /\ writes = 0
        /\ Len(exitStatus) = 1
        /\ exitStatus[1] # 0

\* the catalog was looked for and not found
C10_Witness ==
    /\ catalog = "missing"
    /\ pc = "exited"
    /\ ~Falsy(args.service)

\* the keys of a manifest whose values are mappings
Sections == {"image", "deployment"}

\* the fields of a document: <<section, key, value>>, section "" at the top level
Leaves(d) ==
    { <<"", k, d[k]>> : k \in (DOMAIN d) \ Sections }
    \cup UNION { { <<k, f, d[k][f]>> : f \in DOMAIN d[k] } : k \in (DOMAIN d) \cap Sections }

TagField == <<"image", "tag">>
Metadata == { <<"deployment", "lastUpdated">>, <<"deployment", "updatedBy">> }

\* the fields of d outside the given paths
Outside(d, paths) == { l \in Leaves(d) : <<l[1], l[2]>> \notin paths }

\* C11: update_manifest is idempotent on the tag: a further application with the
\* same image reference gives the document of the previous application except for
\* deployment.lastUpdated and deployment.updatedBy, and after any number of
\* applications every field other than image.tag and those two equals its value in
\* the original manifest.
C11_ManifestIdempotent ==
    \A i \in 2..Len(docs) :
        docs[i] # <<>> =>
            /\ docs[1] # <<>>
            /\ Outside(docs[i][1], Metadata \cup {TagField})
                  = Outside(docs[1][1], Metadata \cup {TagField})
            /\ i >= 3 =>
                  /\ docs[i - 1] # <<>>
                  /\ Outside(docs[i][1], Metadata) = Outside(docs[i - 1][1], Metadata)

\* the update was applied twice to a full manifest, at different times by
\* different actors, and changed the tag the first time
C11_Witness ==
    /\ Len(docs) = 3
    /\ writes = 2
    /\ docs[1] = <<DocFull>>
    /\ docs[2][1]["image"]["tag"] # <<"old">>
    /\ docs[3] # docs[2]


NotifyPosts == {i \in 1..Len(http) : http[i].kind = "notify"}

\* C12: the outcome of a run does not depend on notification delivery: whether the
\* webhook is configured or not, and whether the POST is answered or raises, the
\* value deploy() returns and the exit status are decided by the stages' outcomes
\* alone, nothing is started once the notification was attempted, and a delivery
\* failure does not leave send_notification (no second notification, no exception
\* out of deploy()).
C12_NotificationIndependent ==
    /\ Len(notified) <= 1
    /\ Cardinality(NotifyPosts) <= 1
    /\ (Falsy(cli.SLACK_WEBHOOK_URL) => NotifyPosts = {})
    /\ \A i \in 1..Len(trace) :
          trace[i] = "Notify" => \A j \in (i + 1)..Len(trace) : trace[j] = "Return"
    /\ (notified # <<>> /\ pc = "exited") => result # <<>>
    /\ result # <<>> =>
          /\ result = <<AllStagesOk>>
          /\ exitStatus = <<IF AllStagesOk THEN 0 ELSE 1>>
          /\ Len(outcomes) = Len(Started) + Count(trace, "Rollback")

\* a run whose stages all succeeded and whose notification POST raised
C12_Witness ==
    /\ pc = "exited"
    /\ AllStagesOk
    /\ \E i \in NotifyPosts : http[i].outcome = Raised

RollbackFailed == Len(outcomes) >= 7 /\ outcomes[7] = "false"
RollbackSucceeded == Len(outcomes) >= 7 /\ outcomes[7] = "ok"

\* C13: after a verification failure the reported cause does not depend on how
\* rollback() ended: for a rollback that succeeded and for one that failed alike,
\* the one notification carries the status "Deployment failed, rolled back",
\* deploy() returns False and the exit status is 1.
C13_CauseUnchangedByRollback ==
    (VerificationFailed /\ (RollbackFailed \/ RollbackSucceeded)) =>
        /\ pending = [ success |-> FALSE,
                       message |-> <<"Deployment failed, rolled back">>,
                       returns |-> FALSE, handler |-> FALSE ]
        /\ \A i \in 1..Len(notified) : notified[i] = [ success |-> pending.success,
                                                      message |-> pending.message ]
        /\ \A i \in NotifyPosts :
              http[i].success = FALSE
              /\ http[i].message = <<"Deployment failed, rolled back">>
        /\ result # <<>> => (result = <<FALSE>> /\ exitStatus = <<1>>)

\* the rollout status command failed, the rollback failed too, and the run ended
C13_Witness ==
    /\ pc = "exited"
    /\ VerificationFailed
    /\ RollbackFailed
    /\ attempt = 0
    /\ Len(notified) = 1

SyncPosts == {i \in 1..Len(http) : http[i].kind = "sync"}

SyncReturned == Len(outcomes) >= 5

SyncConfigured == ~Falsy(cli.ARGOCD_API_URL) /\ ~Falsy(cli.ARGOCD_TOKEN)

Is2xx(out) == ~out.raised /\ out.status >= 200 /\ out.status <= 299

\* C14: SyncTrigger issues no request and succeeds when the endpoint URL or the
\* token is absent (unset or empty); otherwise it issues exactly one POST, for the
\* application <service>-<environment>, fails (returns False, raises nothing) for
\* a non-2xx response and for a transport exception, and succeeds for a 200.
C14_SyncTrigger ==
    /\ ~SyncReturned => SyncPosts = {}
    /\ (SyncReturned /\ ~SyncConfigured) => (SyncPosts = {} /\ outcomes[5] = "ok")
    /\ (SyncReturned /\ SyncConfigured) =>
          /\ Cardinality(SyncPosts) = 1
          /\ \A i \in SyncPosts :
                /\ http[i].app = <<self.service_name, "-", self.environment>>
                /\ http[i].outcome = Response(200) => outcomes[5] = "ok"
                /\ ~Is2xx(http[i].outcome) => outcomes[5] = "false"
                /\ http[i].outcome.raised => outcomes[5] = "false"

\* the sync request was answered 503 and the stage failed
C14_Witness ==
    /\ SyncReturned
    /\ \E i \in SyncPosts : http[i].outcome = Response(503)
    /\ outcomes[5] = "false"
    /\ pc = "exited"

IsTestCmd(e) == \E i \in 1..Len(tests) : tests[i].cmd = e.cmd

\* the sub-steps of the Test stage that were run, in order
TestRuns == SelectSeq(Runs, IsTestCmd)

TestCmds == [i \in 1..Len(tests) |-> tests[i].cmd]

\* C15: the Test stage runs unit tests, integration tests, lint, type-check in that
\* order; a sub-step is run only if every sub-step before it exited zero; the stage
\* fails exactly when the last sub-step it ran exited nonzero, and it succeeds only
\* after all four sub-steps were run (in a dry run: reported) and exited zero.
C15_TestsFailFast ==
    LET ran == TestRuns
        n == Len(ran)
    IN  /\ IsPrefix(CmdsOf(ran), TestCmds)
        /\ \A i \in 1..(n - 1) : ran[i].rc = 0
        /\ (Len(outcomes) >= 1 /\ ~self.dry_run) =>
              /\ n >= 1
              /\ outcomes[1] \in {"ok", "false"}
              /\ (outcomes[1] = "false") <=> (ran[n].rc # 0)
              /\ (outcomes[1] = "ok") => (n = 4 /\ \A i \in 1..4 : ran[i].rc = 0)
        /\ (Len(outcomes) >= 1 /\ self.dry_run) =>
              /\ n = 0
              /\ outcomes[1] = "ok"
              /\ IsPrefix(TestCmds, reported)

\* the integration tests failed after the unit tests passed; lint and type-check
\* were not run
C15_Witness ==
    /\ Len(TestRuns) = 2
    /\ TestRuns[1].rc = 0
    /\ TestRuns[2].rc # 0
    /\ outcomes = <<"false">>
    /\ pc = "exited"

\* C16: rollback() is invoked at most once, and only after the verification phase
\* failed: not when Test, Build, SecurityScan, ManifestUpdate or SyncTrigger failed
\* (the manifest being already rewritten or not), not when a stage raised, and not
\* in a successful run.
C16_RollbackOnlyAfterVerification ==
    /\ Count(trace, "Rollback") <= 1
    /\ Cardinality(UndoRuns) <= 1
    /\ (Count(trace, "Rollback") = 1 \/ UndoRuns # {} \/ pc = "rollback") =>
          /\ VerificationFailed
          /\ \A i \in 1..5 : outcomes[i] = "ok"
          /\ \A i \in 1..Len(outcomes) : outcomes[i] # "raise"
          /\ result # <<TRUE>>
    /\ \A i \in 1..Len(reported) : reported[i] # undo_cmd(self)

\* the sync trigger failed after the manifest was rewritten; the run ended without
\* a rollback
C16_Witness ==
    /\ pc = "exited"
    /\ Len(outcomes) = 5
    /\ outcomes[5] = "false"
    /\ writes = 1
    /\ Count(trace, "Rollback") = 0
    /\ UndoRuns = {}

IsDocker(e) == e.cmd[1] \in {"docker build -t ", "docker tag ", "docker push "}

\* the docker build, tag and push commands that were run
DockerRuns == SelectSeq(Runs, IsDocker)

DockerFailed == \E i \in 1..Len(DockerRuns) : DockerRuns[i].rc # 0

\* C17: when docker build, docker tag or docker push exits nonzero the Build stage
\* fails, and neither SecurityScan nor ManifestUpdate is started.
C17_BuildFailureStops ==
    DockerFailed =>
        /\ Len(outcomes) >= 2 => outcomes[2] # "ok"
        /\ Count(trace, "SecurityScan") = 0
        /\ Count(trace, "ManifestUpdate") = 0
        /\ writes = 0

\* the content-derived tag Build computed: the first 8 characters of the commit
\* identifier that went into the image reference deploy() holds
BuildTags ==
    { git_sha(cli.GITHUB_SHA, head) : head \in
        { h \in RevParseOutputs :
            image_tag = full_tag(cli.REGISTRY_URL,
                                 local_tag(self.service_name, git_sha(cli.GITHUB_SHA, h))) } }

\* C18: the tag ManifestUpdate writes to image.tag is the tag Build computed,
\* for every image reference Build returns, host:port registries included.
C18_ManifestTagIsBuildTag ==
    (writes >= 1 /\ pc # "update_manifest") =>
        /\ BuildTags # {}
        /\ manifest[1]["image"]["tag"] \in BuildTags

\* a flag that is given is the value used; otherwise the environment variable is
FlagPrecedence ==
    self # NoPipeline =>
        /\ cli.env_flag # None => self.environment = cli.env_flag
        /\ cli.service_flag # None => self.service_name = cli.service_flag
        /\ (cli.env_flag = None /\ cli.DEPLOY_ENV # None) =>
              self.environment = cli.DEPLOY_ENV
        /\ (cli.service_flag = None) => self.service_name = cli.SERVICE_NAME

\* C19: a constructed pipeline's environment is one of dev, staging, production,
\* whether it came from --env or from DEPLOY_ENV; a given flag wins over the
\* corresponding environment variable.
C19_EnvironmentClosedSet ==
    /\ self # NoPipeline => self.environment \in EnvChoices
    /\ FlagPrecedence

\* deploy() has been entered / has returned
DeployEntered == pc \notin {"main", "construct"} /\ self # NoPipeline
DeployReturned == pc = "exited" /\ result # <<>>

\* what holds of a run of deploy() at every moment: a returned value is True
\* (Succeeded: every stage ok, no rollback) or False (Failed), no stage and no
\* rollback was executed twice, and the health poll made at most 5 attempts
C20_Bounded ==
    /\ result \in {<<>>, <<TRUE>>, <<FALSE>>}
    /\ result = <<TRUE>> => (AllStagesOk /\ Count(trace, "Rollback") = 0)
    /\ result = <<FALSE>> => ~AllStagesOk
    /\ \A i \in 1..Len(StageOrder) : Count(trace, StageOrder[i]) <= 1
    /\ Count(trace, "Rollback") <= 1
    /\ Count(trace, "Return") <= 1
    /\ attempt <= max_retries
    /\ Cardinality(HealthGets) <= max_retries

\* how far the thread of control is from the end of main(): the position in
\* main()/deploy(), then the health attempts left
PcRank ==
    CASE pc = "main" -> 12 [] pc = "construct" -> 11 [] pc = "tests" -> 10
      [] pc = "build" -> 9 [] pc = "scan" -> 8 [] pc = "manifest" -> 7
      [] pc = "sync" -> 6 [] pc = "wait" -> 5 [] pc = "health" -> 4
      [] pc = "rollback" -> 3 [] pc = "notify" -> 2 [] pc = "return" -> 1
      [] OTHER -> 0

Rank == PcRank * (max_retries + 1) + (max_retries - attempt)

\* a run that is not over can take its next step (every call returns)
NotStuck == pc # "exited" => ENABLED Next

\* a run that entered deploy() and is over has returned True or False
TwoOutcomes == (DeployEntered /\ pc = "exited") => result \in {<<TRUE>>, <<FALSE>>}

\* C20: provided every external command and HTTP call returns, every execution
\* of deploy() ends, having returned True (Succeeded) or False (Failed, possibly
\* after a rollback); no stage runs twice and the health poll ends within 5
\* attempts.  Termination is by a ranking function: every step lowers Rank,
\* which never goes below 0, and only a finished run has no next step.
C20_Terminates ==
    /\ [](C20_Bounded /\ NotStuck /\ TwoOutcomes /\ Rank >= 0)
    /\ [][Rank' < Rank]_vars

\* The same under the fairness of LiveSpec: a run that entered deploy() returns.
EventuallyReturns == DeployEntered ~> DeployReturned

\* a run that polled health 5 times, rolled back and returned False
C20_Witness ==
    /\ DeployReturned
    /\ result = <<FALSE>>
    /\ attempt = max_retries
    /\ Count(trace, "Rollback") = 1
====
